---- MODULE Spec2Model ----
(***************************************************************************)
(* Model of scripts/bedrock_list_models_region.py.                         *)
(*                                                                         *)
(* A Python str is a sequence of one-character strings, so that split,     *)
(* startswith, slicing, upper(), title() and the code-point order used by  *)
(* sort are computed as the interpreter computes them.  None is the        *)
(* one-element sequence <<"None">>, whose element is no character.  An     *)
(* output line is the sequence of the fragments of its f-string; a         *)
(* literal fragment is a one-element sequence holding the literal text.    *)
(* Column padding (:<50 and so on) is not modelled: a table row is the     *)
(* sequence of its five column values.                                     *)
(*                                                                         *)
(* API responses are well formed: every model summary carries modelId,     *)
(* providerName, inputModalities and outputModalities, every profile       *)
(* summary carries inferenceProfileId.  The catalog may list the same      *)
(* modelId more than once: the code takes the list as it comes.            *)
(***************************************************************************)
EXTENDS Integers, Sequences, FiniteSets, TLC

VARIABLES
    region, show_cross_region_only, debug,   \* arguments of list_bedrock_models
    pc,                                      \* position in the running function
    calls,                                   \* API operations invoked, with outcome
    native_models, native_model_ids,         \* lines 35-36
    profiles,                             \* response of line 41, loop position
    cri_models,                              \* dict of line 39, in insertion order
    all_models, models, title,               \* lines 57, 69/75, 73/76
    stdout, stderr, exit_code,               \* the two streams, the exit status
    model_id, base1, base2,                  \* get_base_model_id: argument, results
    profile_id, cri_info                     \* extract_cri_info: argument, result

vars == <<region, show_cross_region_only, debug, pc, calls, native_models,
          native_model_ids, profiles, cri_models, all_models, models, title,
          stdout, stderr, exit_code, model_id, base1, base2, profile_id, cri_info>>

listerVars == <<region, show_cross_region_only, debug, calls, native_models,
                native_model_ids, profiles, cri_models, all_models, models,
                title, stdout, stderr, exit_code>>

fnVars == <<model_id, base1, base2, profile_id, cri_info>>

----------------------------------------------------------------------------
(* Bounds of the model.                                                    *)

MaxNative == 2
MaxProfiles == 2
MaxIdLen == 6
MaxTailLen == 2

----------------------------------------------------------------------------
(* Characters and Python's str primitives.                                 *)

LowerChars == <<"a","b","c","d","e","f","g","h","i","j","k","l","m",
                "n","o","p","q","r","s","t","u","v","w","x","y","z">>
UpperChars == <<"A","B","C","D","E","F","G","H","I","J","K","L","M",
                "N","O","P","Q","R","S","T","U","V","W","X","Y","Z">>
DigitChars == <<"0","1","2","3","4","5","6","7","8","9">>

Range(s) == {s[n] : n \in DOMAIN s}

IndexOf(s, c) == CHOOSE n \in DOMAIN s : s[n] = c

LowerSet == Range(LowerChars)
UpperSet == Range(UpperChars)
DigitSet == Range(DigitChars)

IsLower(c) == c \in LowerSet
IsUpper(c) == c \in UpperSet

\* ord(c) for the ASCII characters the identifiers are made of
OrdTable ==
    [c \in LowerSet \cup UpperSet \cup DigitSet \cup {"-", ".", ":"} |->
        IF c \in LowerSet THEN 96 + IndexOf(LowerChars, c)
        ELSE IF c \in UpperSet THEN 64 + IndexOf(UpperChars, c)
        ELSE IF c \in DigitSet THEN 47 + IndexOf(DigitChars, c)
        ELSE IF c = "-" THEN 45
        ELSE IF c = "." THEN 46
        ELSE 58]

Ord(c) == OrdTable[c]

\* c.upper() and c.lower() of one character
UpperTable == [c \in LowerSet |-> UpperChars[IndexOf(LowerChars, c)]]
LowerTable == [c \in UpperSet |-> LowerChars[IndexOf(UpperChars, c)]]

UpperChar(c) == IF IsLower(c) THEN UpperTable[c] ELSE c
LowerChar(c) == IF IsUpper(c) THEN LowerTable[c] ELSE c

\* str.upper()
StrUpper(s) == [n \in DOMAIN s |-> UpperChar(s[n])]

\* str.title(): a cased character is upper-cased when the character before
\* it is not cased, lower-cased when it is
StrTitle(s) ==
    [n \in DOMAIN s |->
        LET prevCased == n > 1 /\ (IsLower(s[n-1]) \/ IsUpper(s[n-1]))
        IN  IF prevCased THEN LowerChar(s[n]) ELSE UpperChar(s[n])]

\* s.startswith(p)
StartsWith(s, p) == Len(p) <= Len(s) /\ SubSeq(s, 1, Len(p)) = p

\* s[n:]
DropFirst(s, n) == SubSeq(s, n + 1, Len(s))

\* s[:-1]
DropLast(s) == SubSeq(s, 1, Len(s) - 1)

\* s.split(sep) for a one-character separator: the list of the segments
RECURSIVE Split(_, _)
Split(s, sep) ==
    IF \A n \in DOMAIN s : s[n] # sep THEN <<s>>
    ELSE LET k == CHOOSE n \in DOMAIN s :
                     s[n] = sep /\ \A m \in 1..(n-1) : s[m] # sep
         IN  <<SubSeq(s, 1, k - 1)>> \o Split(DropFirst(s, k), sep)

\* sep.join(parts)
RECURSIVE Join(_, _)
Join(parts, sep) ==
    IF parts = <<>> THEN <<>>
    ELSE IF Len(parts) = 1 THEN parts[1]
    ELSE parts[1] \o sep \o Join(Tail(parts), sep)

\* s < t on str: at the first place where they differ the code point of s
\* is the smaller one; when there is no such place the shorter one is first
StrLess(s, t) ==
    LET both == DOMAIN s \cap DOMAIN t
        diff == {n \in both : s[n] # t[n]}
    IN  IF diff = {} THEN Len(s) < Len(t)
        ELSE LET k == CHOOSE n \in diff : \A m \in diff : n <= m
             IN  Ord(s[k]) < Ord(t[k])

\* str(n) for n >= 0
RECURSIVE Str(_)
Str(n) ==
    IF n < 10 THEN <<DigitChars[n + 1]>>
    ELSE Str(n \div 10) \o <<DigitChars[(n % 10) + 1]>>

None == <<"None">>

\* truth value of an Optional[str]
Truthy(x) == x # None /\ x # <<>>

\* all sequences over S of length at most n
SeqsUpTo(S, n) == UNION {[1..k -> S] : k \in 0..n}

----------------------------------------------------------------------------
(* get_base_model_id, lines 7-14.                                          *)

ContextSuffixes ==
    { <<"2","8","k">>, <<"2","0","0","k">>, <<"8","k">>, <<"4","8","k">>,
      <<"1","2","k">>, <<"5","1","2">>, <<"2","4","k">>, <<"3","0","0","k">>,
      <<"1","2","8","k">>, <<"1","0","0","0","k">>, <<"m","m">> }

\* variant: the last segment is dropped whatever it is
get_base_model_id_AnySuffix(m) ==
    LET parts == Split(m, ":")
    IN  IF Len(parts) > 1 THEN Join(DropLast(parts), <<":">>) ELSE m

get_base_model_id(m) ==
    LET parts == Split(m, ":")
    IN  IF Len(parts) > 1 /\ parts[Len(parts)] \in ContextSuffixes
        THEN Join(DropLast(parts), <<":">>)
        ELSE m

----------------------------------------------------------------------------
(* extract_cri_info, lines 17-25.                                          *)

prefixes == << <<"u","s",".">>, <<"e","u",".">>, <<"j","p",".">>,
               <<"a","u",".">>, <<"g","l","o","b","a","l",".">> >>

\* the loop of lines 20-25 over a given list of prefixes
RECURSIVE ExtractWith(_, _)
ExtractWith(ps, p) ==
    IF ps = <<>> THEN <<None, None>>
    ELSE IF StartsWith(p, ps[1])
         THEN <<StrUpper(DropLast(ps[1])), DropFirst(p, Len(ps[1]))>>
         ELSE ExtractWith(Tail(ps), p)

\* variant: the prefix is returned as it is written, not upper-cased
RECURSIVE ExtractNoUpper(_, _)
ExtractNoUpper(ps, p) ==
    IF ps = <<>> THEN <<None, None>>
    ELSE IF StartsWith(p, ps[1])
         THEN <<DropLast(ps[1]), DropFirst(p, Len(ps[1]))>>
         ELSE ExtractNoUpper(Tail(ps), p)

extract_cri_info_NoUpper(p) == ExtractNoUpper(prefixes, p)

extract_cri_info(p) == ExtractWith(prefixes, p)

----------------------------------------------------------------------------
(* The dict cri_models: a sequence of <<key, value>> pairs with distinct   *)
(* keys, in insertion order (the order .items() iterates in).              *)

DictKeys(d) == {d[n][1] : n \in DOMAIN d}

DictHas(d, k) == k \in DictKeys(d)

\* d.get(k, default)
DictGet(d, k, default) ==
    IF DictHas(d, k) THEN d[CHOOSE n \in DOMAIN d : d[n][1] = k][2] ELSE default

\* variant: an existing key keeps its old value
DictSet_KeepFirst(d, k, v) == IF DictHas(d, k) THEN d ELSE Append(d, <<k, v>>)

\* d[k] = v: an existing key keeps its place and takes the new value
DictSet(d, k, v) ==
    IF DictHas(d, k)
    THEN [n \in DOMAIN d |-> IF d[n][1] = k THEN <<k, v>> ELSE d[n]]
    ELSE Append(d, <<k, v>>)

\* repr of the dict inside an f-string
RECURSIVE DictItemsRepr(_)
DictItemsRepr(d) ==
    IF d = <<>> THEN <<>>
    ELSE <<"'">> \o d[1][1] \o <<"'", ":", " ", "'">> \o d[1][2] \o <<"'">>
         \o (IF Len(d) > 1 THEN <<",", " ">> ELSE <<>>) \o DictItemsRepr(Tail(d))

DictRepr(d) == <<"{">> \o DictItemsRepr(d) \o <<"}">>

----------------------------------------------------------------------------
(* What the two API operations can answer.                                 *)

\* values of --region; the first is the default of line 110
Regions == {"us-west-2", "eu-west-1"}

\* messages of the exceptions the client can raise
Errors == { <<"AccessDeniedException">>, <<"EndpointConnectionError">> }

Summary(id, provider, inp, out) ==
    [modelId |-> id, providerName |-> provider,
     inputModalities |-> inp, outputModalities |-> out]

Foo == Summary(<<"a",".","f","o","o">>, <<"A">>, <<"TEXT","IMAGE">>, <<"TEXT">>)
Z1 == Summary(<<"z","1">>, <<"Z">>, <<"TEXT">>, <<"EMBEDDING">>)
A2 == Summary(<<"a","2">>, <<"A">>, <<"TEXT">>, <<"TEXT">>)
A1 == Summary(<<"a","1">>, <<"A">>, <<>>, <<"IMAGE">>)

ModelSummaries == {Foo, Z1, A2, A1}

\* every catalog of at most MaxNative summaries, and one longer catalog
NativeCatalogs == SeqsUpTo(ModelSummaries, MaxNative) \cup {<<Z1, A2, A1>>}

ProfileIds ==
    { <<"u","s",".","b",".","b","a","r">>,
      <<"e","u",".","b",".","b","a","r">>,
      <<"g","l","o","b","a","l",".","a","1">>,
      <<"b",".","b","a","r">>,
      <<"u","s",".">> }

ProfileLists == SeqsUpTo(ProfileIds, MaxProfiles)

----------------------------------------------------------------------------
(* Pieces of list_bedrock_models.                                          *)

\* variant: the provider is the first segment as it is, not title-cased
CriOnlyModel_NoTitle(cri_model_id) ==
    Summary(cri_model_id, Split(cri_model_id, ".")[1], <<>>, <<>>)

\* lines 58-66: the entry synthesized for a CRI-only model
CriOnlyModel(cri_model_id) ==
    Summary(cri_model_id, StrTitle(Split(cri_model_id, ".")[1]), <<>>, <<>>)

\* lines 58-66: one entry per CRI key that is no native id, in the dict's
\* order
CriOnlyModels(d, ids) ==
    LET added == SelectSeq(d, LAMBDA item : item[1] \notin ids)
    IN  [n \in DOMAIN added |-> CriOnlyModel(added[n][1])]

\* variant: an entry is synthesized for every CRI key, native or not
Combine_NoNativeCheck(natives, ids, d) == natives \o CriOnlyModels(d, {})

\* lines 57-66: all_models
Combine(natives, ids, d) == natives \o CriOnlyModels(d, ids)

\* variant: the filter lets every entry through
CriFilter_KeepsAll(ms, d) == ms

\* line 69: [m for m in all_models if m.get("modelId", "") in cri_models]
CriFilter(ms, d) == SelectSeq(ms, LAMBDA m : DictHas(d, m.modelId))

\* variant: modelId is the primary key
SortKey_IdFirst(m) == <<m.modelId, m.providerName>>

\* line 82: the sort key, and the order of two keys (tuples of two str)
SortKey(m) == <<m.providerName, m.modelId>>

KeyLess(a, b) == StrLess(a[1], b[1]) \/ (a[1] = b[1] /\ StrLess(a[2], b[2]))

\* list.sort(key=...) is stable: an element goes behind the elements with
\* a smaller key and behind the earlier elements with the same key
SortedPlace(ms, n) ==
    1 + Cardinality({m \in DOMAIN ms :
                        \/ KeyLess(SortKey(ms[m]), SortKey(ms[n]))
                        \/ SortKey(ms[m]) = SortKey(ms[n]) /\ m < n})

SortModels(ms) ==
    LET placeOf == [n \in DOMAIN ms |-> SortedPlace(ms, n)]
    IN  [place \in DOMAIN ms |-> ms[CHOOSE n \in DOMAIN ms : placeOf[n] = place]]

\* line 96: one table row
Row(m, d) ==
    << m.modelId, m.providerName, DictGet(d, m.modelId, <<"-">>),
       Join([n \in DOMAIN m.inputModalities |-> <<m.inputModalities[n]>>], <<", ">>),
       Join([n \in DOMAIN m.outputModalities |-> <<m.outputModalities[n]>>], <<", ">>) >>

Rows(ms, d) == [n \in DOMAIN ms |-> Row(ms[n], d)]

\* lines 85, 87, 98: c * 130, kept as the character and the width
RuleWidth == 130

Rule(c) == << <<c>>, <<"*">>, Str(RuleWidth) >>

HeaderRow == << <<"Model ID">>, <<"Provider">>, <<"CRI Type">>, <<"Input">>, <<"Output">> >>

TotalLine(n) == << <<"Total models: ">>, Str(n), <<"\n">> >>

\* lines 84-99: what is printed for a sorted, non-empty list
Table(t, ms, d) ==
    << << <<"\n">> >> \o t, Rule("="), HeaderRow, Rule("-") >>
    \o Rows(ms, d)
    \o << Rule("-"), TotalLine(Len(ms)) >>

FoundationTitle(r) == << <<"Foundation Models in Amazon Bedrock - Region: ">>, <<r>> >>
CriTitle(r) ==
    << <<"Cross-Region Inference Models in Amazon Bedrock - Region: ">>, <<r>> >>
NoCriLine(r) ==
    << <<"No models with Cross-Region Inference available in region: ">>, <<r>> >>
NoModelsLine(r) == << <<"No models found in region: ">>, <<r>> >>
ErrorLine(e) == << <<"Error listing models: ">>, e >>
DebugProfileLine(p, t, b) ==
    << <<"DEBUG: profile_id=">>, p, <<", cri_type=">>, t, <<", base_id=">>, b >>
DebugErrorLine(e) == << <<"DEBUG: Error getting profiles: ">>, e >>
DebugFoundLine(d) ==
    << <<"DEBUG: Found ">>, Str(Len(d)), <<" CRI models: ">>, DictRepr(d) >>

----------------------------------------------------------------------------
(* list_bedrock_models, lines 28-103, one action per step.                 *)

ListerIdle ==
    /\ calls = <<>> /\ native_models = <<>> /\ native_model_ids = {}
    /\ profiles = <<>> /\ cri_models = <<>>
    /\ all_models = <<>> /\ models = <<>> /\ title = <<>>
    /\ stdout = <<>> /\ stderr = <<>> /\ exit_code = -1

FnIdle ==
    /\ model_id = <<>> /\ base1 = <<>> /\ base2 = <<>>
    /\ profile_id = <<>> /\ cri_info = <<None, None>>

\* an API operation the client was asked for, and how it ended
Call(op, outcome) == [op |-> op, outcome |-> outcome]

\* the script is started with some arguments (lines 106-125)
Init ==
    /\ region \in Regions
    /\ show_cross_region_only \in BOOLEAN
    /\ debug \in BOOLEAN
    /\ pc = "list_foundation_models"
    /\ ListerIdle
    /\ FnIdle

\* lines 34-36: the primary call answers
ListFoundationModels ==
    /\ pc = "list_foundation_models"
    /\ \E r \in NativeCatalogs :
         /\ native_models' = r
         /\ native_model_ids' = {r[n].modelId : n \in DOMAIN r}
    /\ calls' = Append(calls, Call("list_foundation_models", "ok"))
    /\ pc' = "list_inference_profiles"
    /\ UNCHANGED <<region, show_cross_region_only, debug, profiles, cri_models,
                   all_models, models, title, stdout, stderr, exit_code>>
    /\ UNCHANGED fnVars

\* variant: the error is reported but the process is not ended
ListFoundationModelsRaises_NoExit ==
    /\ pc = "list_foundation_models"
    /\ \E e \in Errors : stderr' = Append(stderr, ErrorLine(e))
    /\ calls' = Append(calls, Call("list_foundation_models", "raised"))
    /\ pc' = "list_inference_profiles"
    /\ UNCHANGED <<region, show_cross_region_only, debug, native_models,
                   native_model_ids, profiles, cri_models, all_models, models,
                   title, stdout, exit_code>>
    /\ UNCHANGED fnVars

\* lines 34, 101-103: the primary call raises
ListFoundationModelsRaises ==
    /\ pc = "list_foundation_models"
    /\ \E e \in Errors : stderr' = Append(stderr, ErrorLine(e))
    /\ calls' = Append(calls, Call("list_foundation_models", "raised"))
    /\ exit_code' = 1
    /\ pc' = "exited"
    /\ UNCHANGED <<region, show_cross_region_only, debug, native_models,
                   native_model_ids, profiles, cri_models, all_models, models,
                   title, stdout>>
    /\ UNCHANGED fnVars

\* lines 42-48: one turn of the loop, on the dict and on the error stream
LoopTurn(d, pid) ==
    LET info == extract_cri_info(pid)
    IN  IF Truthy(info[1]) /\ Truthy(info[2]) THEN DictSet(d, info[2], info[1]) ELSE d

LoopDebug(pid) ==
    LET info == extract_cri_info(pid)
    IN  DebugProfileLine(pid, info[1], info[2])

\* the dict after the loop has run over the first n profile summaries
RECURSIVE CriAfter(_, _)
CriAfter(ps, n) ==
    IF n = 0 THEN <<>>
    ELSE LoopTurn(CriAfter(ps, n - 1), ps[n].inferenceProfileId)

\* lines 39-48: the profile call answers and the loop runs over the answer
ListInferenceProfiles ==
    /\ pc = "list_inference_profiles"
    /\ \E ps \in ProfileLists :
         profiles' = [n \in DOMAIN ps |-> [inferenceProfileId |-> ps[n]]]
    /\ cri_models' = CriAfter(profiles', Len(profiles'))
    /\ stderr' = IF debug
                 THEN stderr \o [n \in DOMAIN profiles' |->
                                    LoopDebug(profiles'[n].inferenceProfileId)]
                 ELSE stderr
    /\ calls' = Append(calls, Call("list_inference_profiles", "ok"))
    /\ pc' = "combine"
    /\ UNCHANGED <<region, show_cross_region_only, debug, native_models,
                   native_model_ids, all_models, models, title, stdout, exit_code>>
    /\ UNCHANGED fnVars

\* variant: no inner try, the failure reaches the outer handler
ListInferenceProfilesRaises_Fatal ==
    /\ pc = "list_inference_profiles"
    /\ \E e \in Errors : stderr' = Append(stderr, ErrorLine(e))
    /\ calls' = Append(calls, Call("list_inference_profiles", "raised"))
    /\ exit_code' = 1
    /\ pc' = "exited"
    /\ UNCHANGED <<region, show_cross_region_only, debug, native_models,
                   native_model_ids, profiles, cri_models, all_models, models,
                   title, stdout>>
    /\ UNCHANGED fnVars

\* lines 41, 49-51: the profile call raises
ListInferenceProfilesRaises ==
    /\ pc = "list_inference_profiles"
    /\ \E e \in Errors :
         stderr' = IF debug THEN Append(stderr, DebugErrorLine(e)) ELSE stderr
    /\ calls' = Append(calls, Call("list_inference_profiles", "raised"))
    /\ pc' = "combine"
    /\ UNCHANGED <<region, show_cross_region_only, debug, native_models,
                   native_model_ids, profiles, cri_models, all_models, models,
                   title, stdout, exit_code>>
    /\ UNCHANGED fnVars

\* lines 53-66: after the inner try, the combined list
CombineModels ==
    /\ pc = "combine"
    /\ stderr' = IF debug THEN Append(stderr, DebugFoundLine(cri_models)) ELSE stderr
    /\ all_models' = Combine(native_models, native_model_ids, cri_models)
    /\ pc' = "select"
    /\ UNCHANGED <<region, show_cross_region_only, debug, calls, native_models,
                   native_model_ids, profiles, cri_models, models, title, stdout,
                   exit_code>>
    /\ UNCHANGED fnVars

\* lines 68-76: the list to render
Selected ==
    IF show_cross_region_only THEN CriFilter(all_models, cri_models) ELSE all_models

\* lines 68-72: --cross-region-only and nothing passes the filter
NoCriModels ==
    /\ pc = "select"
    /\ show_cross_region_only
    /\ Selected = <<>>
    /\ models' = Selected
    /\ stdout' = Append(stdout, NoCriLine(region))
    /\ exit_code' = 0
    /\ pc' = "returned"
    /\ UNCHANGED <<region, show_cross_region_only, debug, calls, native_models,
                   native_model_ids, profiles, cri_models, all_models, title,
                   stderr>>
    /\ UNCHANGED fnVars

\* variant: the function returns without printing the line
NoModels_Silent ==
    /\ pc = "select"
    /\ ~show_cross_region_only
    /\ Selected = <<>>
    /\ models' = Selected
    /\ title' = FoundationTitle(region)
    /\ exit_code' = 0
    /\ pc' = "returned"
    /\ UNCHANGED <<region, show_cross_region_only, debug, calls, native_models,
                   native_model_ids, profiles, cri_models, all_models, stdout,
                   stderr>>
    /\ UNCHANGED fnVars

\* lines 74-80: no filter and the combined list is empty
NoModels ==
    /\ pc = "select"
    /\ ~show_cross_region_only
    /\ Selected = <<>>
    /\ models' = Selected
    /\ title' = FoundationTitle(region)
    /\ stdout' = Append(stdout, NoModelsLine(region))
    /\ exit_code' = 0
    /\ pc' = "returned"
    /\ UNCHANGED <<region, show_cross_region_only, debug, calls, native_models,
                   native_model_ids, profiles, cri_models, all_models, stderr>>
    /\ UNCHANGED fnVars

\* lines 73, 76: the title of the table
SelectedTitle ==
    IF show_cross_region_only THEN CriTitle(region) ELSE FoundationTitle(region)

\* lines 68-99: sort and print the table; without the filter models is
\* all_models itself, which the sort reorders too
RenderTable ==
    /\ pc = "select"
    /\ Selected # <<>>
    /\ models' = SortModels(Selected)
    /\ all_models' = IF show_cross_region_only THEN all_models ELSE models'
    /\ title' = SelectedTitle
    /\ stdout' = stdout \o Table(title', models', cri_models)
    /\ exit_code' = 0
    /\ pc' = "returned"
    /\ UNCHANGED <<region, show_cross_region_only, debug, calls, native_models,
                   native_model_ids, profiles, cri_models, stderr>>
    /\ UNCHANGED fnVars

Next ==
    \/ ListFoundationModels
    \/ ListFoundationModelsRaises
    \/ ListInferenceProfiles
    \/ ListInferenceProfilesRaises
    \/ CombineModels
    \/ NoCriModels
    \/ NoModels
    \/ RenderTable

Spec == Init /\ [][Next]_vars

----------------------------------------------------------------------------
(* get_base_model_id on its own: it is called on an identifier, and again  *)
(* on what it returned.                                                    *)

IdAlphabet == {"a", ":", "8", "k", "m"}

ModelIdInputs == SeqsUpTo(IdAlphabet, MaxIdLen)

ListerNotStarted ==
    /\ region \in Regions
    /\ show_cross_region_only = FALSE
    /\ debug = FALSE
    /\ ListerIdle

InitNormalizer ==
    /\ pc = "get_base_model_id"
    /\ model_id \in ModelIdInputs
    /\ base1 = <<>> /\ base2 = <<>>
    /\ profile_id = <<>> /\ cri_info = <<None, None>>
    /\ ListerNotStarted

Normalize ==
    /\ pc = "get_base_model_id"
    /\ base1' = get_base_model_id(model_id)
    /\ pc' = "normalized"
    /\ UNCHANGED <<model_id, base2, profile_id, cri_info>>
    /\ UNCHANGED listerVars

NormalizeAgain ==
    /\ pc = "normalized"
    /\ base2' = get_base_model_id(base1)
    /\ pc' = "normalized_twice"
    /\ UNCHANGED <<model_id, base1, profile_id, cri_info>>
    /\ UNCHANGED listerVars

NextNormalizer == Normalize \/ NormalizeAgain

SpecNormalizer == InitNormalizer /\ [][NextNormalizer]_vars

----------------------------------------------------------------------------
(* extract_cri_info on its own.                                            *)

\* beginnings of profile ids: the five prefixes and strings close to them
ProfileHeads ==
    Range(prefixes) \cup
    { <<>>, <<"u">>, <<"u","s">>, <<"U","S",".">>, <<".","u","s",".">>,
      <<"e","u">>, <<"j","p">>, <<"a","u">>, <<"a",".">>,
      <<"g","l","o","b","a","l">>, <<"g","l","o","b","a",".">>,
      <<"G","l","o","b","a","l",".">> }

TailAlphabet == {"u", "s", ".", "a"}

ProfileIdInputs == {h \o t : h \in ProfileHeads, t \in SeqsUpTo(TailAlphabet, MaxTailLen)}

InitExtractor ==
    /\ pc = "extract_cri_info"
    /\ profile_id \in ProfileIdInputs
    /\ cri_info = <<None, None>>
    /\ model_id = <<>> /\ base1 = <<>> /\ base2 = <<>>
    /\ ListerNotStarted

Extract ==
    /\ pc = "extract_cri_info"
    /\ cri_info' = extract_cri_info(profile_id)
    /\ pc' = "extracted"
    /\ UNCHANGED <<model_id, base1, base2, profile_id>>
    /\ UNCHANGED listerVars

NextExtractor == Extract

SpecExtractor == InitExtractor /\ [][NextExtractor]_vars

----------------------------------------------------------------------------
(* Properties of get_base_model_id, under SpecNormalizer.                  *)

\* m ends in ":" followed by the context-window suffix x
EndsIn(m, x) ==
    /\ Len(m) > Len(x)
    /\ SubSeq(m, Len(m) - Len(x), Len(m)) = <<":">> \o x

HasContextSuffix(m) == \E x \in ContextSuffixes : EndsIn(m, x)

\* m without its context-window suffix and the ":" before it
WithoutContextSuffix(m) ==
    IF HasContextSuffix(m)
    THEN LET x == CHOOSE y \in ContextSuffixes : EndsIn(m, y)
         IN  SubSeq(m, 1, Len(m) - Len(x) - 1)
    ELSE m

\* C10, as claimed: get_base_model_id is idempotent, normalizing the
\* result again returns the result, for every model identifier.
C10_Idempotent == pc = "normalized_twice" => base2 = base1

\* C10, amended: get_base_model_id(m) is m without its last ":"-segment and
\* that delimiter when the segment is in the enumerated set, and m
\* otherwise; one call removes one suffix, so a second call returns the
\* first result exactly when that result does not end in such a suffix.
C10_StripsOneSuffix ==
    /\ pc \in {"normalized", "normalized_twice"} =>
           base1 = WithoutContextSuffix(model_id)
    /\ pc = "normalized_twice" =>
           /\ base2 = WithoutContextSuffix(base1)
           /\ (base2 = base1) <=> ~HasContextSuffix(base1)

\* a suffix was removed by the first call and the second call changed nothing
C10_Witness ==
    /\ pc = "normalized_twice"
    /\ HasContextSuffix(model_id)
    /\ base1 # model_id
    /\ base2 = base1

----------------------------------------------------------------------------
(* Properties of extract_cri_info, under SpecExtractor.                    *)

\* the prefixes and what is returned for each
KnownPrefixes ==
    { << <<"u","s",".">>, <<"U","S">> >>,
      << <<"e","u",".">>, <<"E","U">> >>,
      << <<"j","p",".">>, <<"J","P">> >>,
      << <<"a","u",".">>, <<"A","U">> >>,
      << <<"g","l","o","b","a","l",".">>, <<"G","L","O","B","A","L">> >> }

\* what is left of p behind its first n characters
Remainder(p, n) == [k \in 1..(Len(p) - n) |-> p[k + n]]

BeginsWith(p, pre) == Len(pre) <= Len(p) /\ \A k \in DOMAIN pre : p[k] = pre[k]

\* every order the list of prefixes can be iterated in
PrefixOrders ==
    LET N == Len(prefixes)
        perms == {f \in [1..N -> 1..N] : \A a, b \in 1..N : a # b => f[a] # f[b]}
    IN  {[n \in 1..N |-> prefixes[f[n]]] : f \in perms}

\* C9: for every string p, extract_cri_info(p) is (the upper-cased prefix
\* without its dot, the exact remainder of p) when p starts with one of
\* us. eu. jp. au. global. and (None, None) otherwise, and the result is
\* the same for every iteration order of the prefix list.
C9_Extract ==
    pc = "extracted" =>
        /\ \A k \in KnownPrefixes :
               BeginsWith(profile_id, k[1]) =>
                   cri_info = <<k[2], Remainder(profile_id, Len(k[1]))>>
        /\ (\A k \in KnownPrefixes : ~BeginsWith(profile_id, k[1])) =>
               cri_info = <<None, None>>
        /\ \A order \in PrefixOrders : ExtractWith(order, profile_id) = cri_info

\* a profile id with the longest prefix and something behind it was split
C9_Witness ==
    /\ pc = "extracted"
    /\ BeginsWith(profile_id, <<"g","l","o","b","a","l",".">>)
    /\ cri_info[1] = <<"G","L","O","B","A","L">>
    /\ cri_info[2] # <<>>

----------------------------------------------------------------------------
(* Properties of list_bedrock_models, under Spec.                          *)

PrimaryRaised == Len(calls) >= 1 /\ calls[1].outcome = "raised"
ProfilesAnswered == Len(calls) = 2 /\ calls[2].outcome = "ok"
ProfilesRaised == Len(calls) = 2 /\ calls[2].outcome = "raised"

Returned == pc = "returned"

\* the number of lines a table has around its rows: four before, two after
TablePrinted == Returned /\ Len(stdout) > 1

RowCount == Len(stdout) - Len(<<"title", "rule", "header", "rule", "rule", "total">>)

\* the n-th row of the printed table
TableRow(n) == stdout[n + Len(<<"title", "rule", "header", "rule">>)]

RowIds == [n \in 1..RowCount |-> TableRow(n)[1]]

\* how often x occurs in the sequence s
Count(s, x) == Cardinality({n \in DOMAIN s : s[n] = x})

NativeIds == {native_models[n].modelId : n \in DOMAIN native_models}

IdsOf(ms) == [n \in DOMAIN ms |-> ms[n].modelId]

Distinct(s) == \A a, b \in DOMAIN s : a # b => s[a] # s[b]

\* the keys of the CRI mapping that are no native model id
CriOnlyKeys == DictKeys(cri_models) \ NativeIds

\* C1: when list_foundation_models raises, the run ends with exit code 1,
\* exactly one line "Error listing models: <message>" is on the error
\* stream, the inference-profile call is never made, and nothing is on
\* standard output.
C1_PrimaryFailureIsFatal ==
    PrimaryRaised =>
        /\ pc = "exited"
        /\ exit_code = 1
        /\ \E e \in Errors : stderr = << << <<"Error listing models: ">>, e >> >>
        /\ \A n \in DOMAIN calls : calls[n].op # "list_inference_profiles"
        /\ stdout = <<>>

\* the primary call raised in a run started with --debug
C1_Witness == PrimaryRaised /\ debug /\ pc = "exited"

\* C2: when list_foundation_models succeeds and list_inference_profiles
\* raises, with or without --debug, the run never exits with a non-zero
\* code; it goes on with an empty CRI mapping and ends with exit code 0,
\* and without --cross-region-only and with a non-empty native catalog it
\* prints the full table: every native model, each with CRI type "-".
C2_ProfileFailureIsNotFatal ==
    ProfilesRaised =>
        /\ pc # "exited"
        /\ exit_code \in {-1, 0}
        /\ cri_models = <<>>
        /\ pc \in {"combine", "select", "returned"}
        /\ Returned => exit_code = 0
        /\ (Returned /\ ~show_cross_region_only /\ native_models # <<>>) =>
               /\ RowCount = Len(native_models)
               /\ stdout[1] = << <<"\n">>,
                                 <<"Foundation Models in Amazon Bedrock - Region: ">>,
                                 <<region>> >>
               /\ stdout[Len(stdout)] =
                      << <<"Total models: ">>, Str(Len(native_models)), <<"\n">> >>
               /\ \A n \in 1..RowCount : TableRow(n)[3] = <<"-">>
               /\ LET printed == [k \in 1..RowCount |-> <<TableRow(k)[1], TableRow(k)[2]>>]
                      listed == [k \in DOMAIN native_models |->
                                    <<native_models[k].modelId, native_models[k].providerName>>]
                  IN  \A x \in Range(listed) : Count(printed, x) = Count(listed, x)

\* the profile call raised under --debug and the table of two or more
\* native models was printed
C2_Witness ==
    /\ ProfilesRaised /\ debug /\ ~show_cross_region_only
    /\ Returned /\ Len(native_models) >= 2
    /\ RowCount = Len(native_models)

\* C3, as claimed: for every native catalog and every list of profiles the
\* combined list, and every rendered table, has no two entries with the
\* same modelId.
C3_UniqueIds ==
    /\ pc \in {"select", "returned"} => Distinct(IdsOf(all_models))
    /\ TablePrinted => Distinct(RowIds)

\* C3, amended: the merge adds no duplicate.  A native id occurs in the
\* combined list as often as in the native catalog, any other id once, and
\* only keys of the CRI mapping are added; so a catalog with distinct ids
\* gives a combined list, and a table, with distinct ids.
C3_MergeAddsNoDuplicate ==
    /\ pc \in {"select", "returned"} =>
           /\ \A n \in DOMAIN all_models :
                  LET x == all_models[n].modelId
                  IN  /\ Count(IdsOf(all_models), x) =
                             IF x \in NativeIds THEN Count(IdsOf(native_models), x) ELSE 1
                      /\ x \in NativeIds \cup DictKeys(cri_models)
           /\ Distinct(IdsOf(native_models)) => Distinct(IdsOf(all_models))
    /\ (TablePrinted /\ Distinct(IdsOf(native_models))) => Distinct(RowIds)

\* a catalog with distinct ids was merged with a mapping that has a native
\* key and a key that is not native
C3_Witness ==
    /\ pc = "select"
    /\ Distinct(IdsOf(native_models))
    /\ DictKeys(cri_models) \cap NativeIds # {}
    /\ CriOnlyKeys # {}
    /\ Len(all_models) = Len(native_models) + 1

\* the part of k before its first ".", k itself when it has none
FirstDotSegment(k) ==
    IF \A n \in DOMAIN k : k[n] # "." THEN k
    ELSE LET j == CHOOSE n \in DOMAIN k : k[n] = "." /\ \A m \in 1..(n-1) : k[m] # "."
         IN  [n \in 1..(j-1) |-> k[n]]

\* the entry the claim describes for a CRI-only key
SynthesizedFor(k) ==
    [modelId |-> k, providerName |-> StrTitle(FirstDotSegment(k)),
     inputModalities |-> <<>>, outputModalities |-> <<>>]

A_Foo == <<"a",".","f","o","o">>
B_Bar == <<"b",".","b","a","r">>
Us_B_Bar == <<"u","s",".","b",".","b","a","r">>
Eu_B_Bar == <<"e","u",".","b",".","b","a","r">>

\* the first three columns of the rows
RowHeads == [n \in 1..RowCount |-> <<TableRow(n)[1], TableRow(n)[2], TableRow(n)[3]>>]

\* the example of C4: native [a.foo of provider A], profiles [us.b.bar]
C4_Example ==
    /\ Len(native_models) = 1
    /\ native_models[1].modelId = A_Foo
    /\ native_models[1].providerName = <<"A">>
    /\ ProfilesAnswered
    /\ [n \in DOMAIN profiles |-> profiles[n].inferenceProfileId] = <<Us_B_Bar>>

\* C4: without --cross-region-only the rendered entries are exactly the
\* native models, unchanged, plus one synthesized entry per key of the CRI
\* mapping that is no native id (modelId the key, provider the title-cased
\* first dot-segment, no modalities); "Total models" is the number of
\* native models plus the number of such keys; native [a.foo of A] with
\* profiles [us.b.bar] gives the rows a.foo, CRI "-", and b.bar, provider
\* "B", CRI "US".
C4_CombinedList ==
    (Returned /\ ~show_cross_region_only) =>
        /\ TablePrinted <=> (native_models # <<>> \/ CriOnlyKeys # {})
        /\ TablePrinted =>
               /\ Len(models) = Len(native_models) + Cardinality(CriOnlyKeys)
               /\ \A n \in DOMAIN native_models :
                      Count(models, native_models[n]) =
                          Count(native_models, native_models[n])
               /\ \A k \in CriOnlyKeys : Count(models, SynthesizedFor(k)) = 1
               /\ RowCount = Len(models)
               /\ \A n \in DOMAIN models :
                      /\ TableRow(n)[1] = models[n].modelId
                      /\ TableRow(n)[2] = models[n].providerName
               /\ stdout[Len(stdout)] =
                      << <<"Total models: ">>,
                         Str(Len(native_models) + Cardinality(CriOnlyKeys)),
                         <<"\n">> >>
        /\ C4_Example =>
               RowHeads = << <<A_Foo, <<"A">>, <<"-">> >>,
                             <<B_Bar, <<"B">>, <<"U","S">> >> >>

\* the run of the example has printed its table
C4_Witness ==
    /\ Returned /\ ~show_cross_region_only /\ C4_Example
    /\ RowCount = Len(<<A_Foo, B_Bar>>)

\* C5: with --cross-region-only the modelIds of the rendered rows are
\* exactly the keys of the CRI mapping, native or not, and every row has a
\* CRI type other than "-"; with an empty mapping the output is exactly the
\* line "No models with Cross-Region Inference available in region:
\* <region>" and the run ends with exit code 0.
C5_CrossRegionOnly ==
    (Returned /\ show_cross_region_only) =>
           /\ exit_code = 0
           /\ cri_models = <<>> =>
                  stdout = << << <<"No models with Cross-Region Inference available in region: ">>,
                                 <<region>> >> >>
           /\ cri_models # <<>> =>
                  /\ TablePrinted
                  /\ stdout[1] = << <<"\n">>,
                                    <<"Cross-Region Inference Models in Amazon Bedrock - Region: ">>,
                                    <<region>> >>
                  /\ {RowIds[n] : n \in 1..RowCount} = DictKeys(cri_models)
                  /\ \A n \in 1..RowCount : TableRow(n)[3] # <<"-">>

\* a filtered table was printed for a mapping with a native key and a key
\* that is not native, from a catalog with a model outside the mapping
C5_Witness ==
    /\ Returned /\ show_cross_region_only /\ TablePrinted
    /\ DictKeys(cri_models) \cap NativeIds # {}
    /\ CriOnlyKeys # {}
    /\ NativeIds \ DictKeys(cri_models) # {}

\* both calls answered, with an empty catalog and an empty CRI mapping
C6_NothingListed ==
    /\ ProfilesAnswered /\ Returned
    /\ native_models = <<>> /\ cri_models = <<>>

\* C6, as claimed: when both calls succeed with an empty native catalog and
\* an empty CRI mapping, whatever show_cross_region_only and debug are,
\* standard output is exactly "No models found in region: <region>" and
\* the exit code is 0.
C6_NoModelsFound ==
    C6_NothingListed =>
        /\ stdout = << << <<"No models found in region: ">>, <<region>> >> >>
        /\ exit_code = 0

\* C6, amended: in that case the exit code is 0 and standard output is
\* exactly "No models found in region: <region>" without
\* --cross-region-only, and exactly "No models with Cross-Region Inference
\* available in region: <region>" with it, whatever debug is.
C6_NoModelsFoundUnlessFiltered ==
    C6_NothingListed =>
        /\ exit_code = 0
        /\ ~show_cross_region_only =>
               stdout = << << <<"No models found in region: ">>, <<region>> >> >>
        /\ show_cross_region_only =>
               stdout = << << <<"No models with Cross-Region Inference available in region: ">>,
                              <<region>> >> >>

\* nothing was listed in an unfiltered run under --debug, over profiles
\* that gave no entry
C6_Witness ==
    /\ C6_NothingListed /\ ~show_cross_region_only /\ debug
    /\ profiles # <<>>
    /\ Len(stdout) = 1

\* s <= t in code-point order: s is a prefix of t, or s is smaller at the
\* first place where they differ
StrLeq(s, t) ==
    \/ /\ Len(s) <= Len(t)
       /\ \A k \in DOMAIN s : s[k] = t[k]
    \/ \E k \in DOMAIN s \cap DOMAIN t :
          /\ \A j \in 1..(k-1) : s[j] = t[j]
          /\ Ord(s[k]) < Ord(t[k])

\* (p1, i1) <= (p2, i2), the first component deciding
PairLeq(p1, i1, p2, i2) ==
    \/ p1 # p2 /\ StrLeq(p1, p2)
    \/ p1 = p2 /\ StrLeq(i1, i2)

C7_Example ==
    /\ [n \in DOMAIN native_models |-> native_models[n].providerName]
           = << <<"Z">>, <<"A">>, <<"A">> >>
    /\ IdsOf(native_models) = << <<"z","1">>, <<"a","2">>, <<"a","1">> >>
    /\ cri_models = <<>>

\* C7: in every rendered table the rows are in ascending order of
\* (providerName, modelId), providerName first, and are a permutation of
\* the selected list; providers [Z, A, A] with ids [z1, a2, a1] are
\* rendered as a1, a2, z1.
C7_RowsSorted ==
    TablePrinted =>
        /\ \A n \in 1..(RowCount - 1) :
               PairLeq(TableRow(n)[2], TableRow(n)[1],
                       TableRow(n + 1)[2], TableRow(n + 1)[1])
        /\ LET printed == [k \in 1..RowCount |-> <<TableRow(k)[1], TableRow(k)[2]>>]
               chosen == [k \in DOMAIN Selected |->
                             <<Selected[k].modelId, Selected[k].providerName>>]
           IN  /\ Len(printed) = Len(chosen)
               /\ \A x \in Range(chosen) : Count(printed, x) = Count(chosen, x)
        /\ (C7_Example /\ ~show_cross_region_only) =>
               RowIds = << <<"a","1">>, <<"a","2">>, <<"z","1">> >>

\* the table of the example was printed
C7_Witness ==
    /\ TablePrinted /\ ~show_cross_region_only /\ C7_Example
    /\ RowCount = Len(native_models)

\* what the profile id q gives the mapping: <<base id, CRI type>> when q
\* starts with a known prefix and something follows it, <<>> when not
EntryOf(q) ==
    LET known == {k \in KnownPrefixes : BeginsWith(q, k[1])}
    IN  IF known = {} THEN <<>>
        ELSE LET k == CHOOSE x \in known : TRUE
             IN  IF Len(q) = Len(k[1]) THEN <<>>
                 ELSE <<Remainder(q, Len(k[1])), k[2]>>

\* the loop over the answered profiles has just ended
LoopEnded == ProfilesAnswered /\ pc = "combine"

\* C8: after the loop the CRI mapping has exactly one entry for each base
\* id that some profile with a known prefix and a non-empty remainder
\* stands for, and its value is the CRI type of the last such profile in
\* list order; a profile without known prefix or with nothing behind the
\* prefix adds no entry and changes none.
C8_LastProfileWins ==
    LoopEnded =>
        LET given == [n \in DOMAIN profiles |-> EntryOf(profiles[n].inferenceProfileId)]
            lastFor(b) == CHOOSE n \in DOMAIN given :
                              /\ given[n] # <<>> /\ given[n][1] = b
                              /\ \A m \in DOMAIN given :
                                     (given[m] # <<>> /\ given[m][1] = b) => m <= n
        IN  /\ Distinct([e \in DOMAIN cri_models |-> cri_models[e][1]])
            /\ DictKeys(cri_models) = {given[n][1] : n \in {m \in DOMAIN given : given[m] # <<>>}}
            /\ \A e \in DOMAIN cri_models :
                   cri_models[e][2] = given[lastFor(cri_models[e][1])][2]

\* [us.b.bar, eu.b.bar] was processed and b.bar maps to EU
C8_Witness ==
    /\ LoopEnded
    /\ [n \in DOMAIN profiles |-> profiles[n].inferenceProfileId] = <<Us_B_Bar, Eu_B_Bar>>
    /\ cri_models = << <<B_Bar, <<"E","U">> >> >>

====
